---- MODULE Spec2Model ----
(***************************************************************************)
(* The Entity-Component tree of Neptune.js: class Entity of                 *)
(* src/src/basic/entity.js.                                                *)
(*                                                                         *)
(* Entities are the integers 1..NumNodes, component instances the integers *)
(* 1..NumComps; 0 stands for JavaScript's null/undefined reference.        *)
(* Arrays are sequences; JavaScript's 0-based index i is position i+1.     *)
(* An exception (TypeError, RangeError) is recorded in call.status and     *)
(* unwinds the whole call stack: entity.js has no try/catch.               *)
(***************************************************************************)
EXTENDS Integers, Sequences, FiniteSets, TLC

\* ---------------------------------------------------------------- bounds
NumNodes == 4
NumComps == 4
MaxSteps == 4
MaxDepth == 5

Nodes == 1..NumNodes
Comps == 1..NumComps
Null == 0

\* ------------------------------------------------------- class hierarchy
\* Component classes named by the engine; Kinematic extends
\* CollidableTransform, Sprite is unrelated to both.
ClassNames == <<"CollidableTransform", "Kinematic", "Sprite">>

Classes == {ClassNames[i] : i \in 1..Len(ClassNames)}

\* The superclass named by a class's `extends` clause ("Object" = none).
SuperOf(cls) == IF cls = "Kinematic" THEN "CollidableTransform" ELSE "Object"

\* component.constructor: the class an instance was built from.
Constructor(c) == ClassNames[((c - 1) % Len(ClassNames)) + 1]

RECURSIVE IsSubclass(_, _)
IsSubclass(cls, type) ==
    IF cls = type THEN TRUE
    ELSE IF cls = "Object" THEN FALSE
    ELSE IsSubclass(SuperOf(cls), type)

\* `component instanceof type`: a walk up the prototype chain.
InstanceOf(c, type) == IsSubclass(Constructor(c), type)

VARIABLES
    children,    \* _children of every entity
    parent,      \* _parent of every entity (Null for none)
    components,  \* _components of every entity
    entity,      \* component.entity back-reference (Null until attached)
    stack,       \* call stack of the running Init()/Destroy()
    log,         \* lifecycle events of the running / last Init() or Destroy()
    call,        \* the current / last top-level call and how it ended
    pre,         \* children and parent as they were when Init()/Destroy() was called
    steps        \* number of top-level calls made

vars == <<children, parent, components, entity, stack, log, call, pre, steps>>

\* ------------------------------------------------------- array helpers
Range(s) == {s[i] : i \in 1..Len(s)}

Includes(s, x) == \E i \in 1..Len(s) : s[i] = x

\* Array.prototype.findIndex with an equality test: 0-based, -1 if absent.
FindIndex(s, x) ==
    IF Includes(s, x)
    THEN (CHOOSE i \in 1..Len(s) : s[i] = x /\ \A j \in 1..(i - 1) : s[j] # x) - 1
    ELSE -1

\* Array.prototype.splice(index, 1) for 0 <= index < length.
Splice1(s, index) == SubSeq(s, 1, index) \o SubSeq(s, index + 2, Len(s))

\* ------------------------------------------------ component lookup
\* _components.findIndex(component => component instanceof type)
\* A lookup by the exact constructor instead of instanceof.
FindComponentIndexExact(cs, type) ==
    IF \E i \in 1..Len(cs) : Constructor(cs[i]) = type
    THEN (CHOOSE i \in 1..Len(cs) :
            Constructor(cs[i]) = type /\ \A j \in 1..(i - 1) : Constructor(cs[j]) # type) - 1
    ELSE -1

FindComponentIndex(cs, type) ==
    IF \E i \in 1..Len(cs) : InstanceOf(cs[i], type)
    THEN (CHOOSE i \in 1..Len(cs) :
            InstanceOf(cs[i], type) /\ \A j \in 1..(i - 1) : ~InstanceOf(cs[j], type)) - 1
    ELSE -1

\* A lookup that compares constructors instead of using instanceof.
hasComponentExact(cs, type) == \E i \in 1..Len(cs) : Constructor(cs[i]) = type

\* A lookup that stops at the first attached component.
hasComponentFirstOnly(cs, type) == Len(cs) > 0 /\ InstanceOf(cs[1], type)

hasComponent(cs, type) == \E i \in 1..Len(cs) : InstanceOf(cs[i], type)

\* A lookup that returns the last match instead of the first.
getComponentLast(cs, type) ==
    IF \E i \in 1..Len(cs) : InstanceOf(cs[i], type)
    THEN cs[CHOOSE i \in 1..Len(cs) :
                InstanceOf(cs[i], type) /\ \A j \in (i + 1)..Len(cs) : ~InstanceOf(cs[j], type)]
    ELSE Null

getComponent(cs, type) ==
    IF FindComponentIndex(cs, type) > -1 THEN cs[FindComponentIndex(cs, type) + 1] ELSE Null

\* ------------------------------------------------ call records
NoPre == <<>>

Call(op, n, child, comp, type, status, result) ==
    [op |-> op, node |-> n, child |-> child, comp |-> comp, type |-> type,
     status |-> status, result |-> result]

Idle == stack = <<>> /\ steps < MaxSteps

InitState ==
    /\ children = [n \in Nodes |-> <<>>]
    /\ parent = [n \in Nodes |-> Null]
    /\ components = [n \in Nodes |-> <<>>]
    /\ entity = [c \in Comps |-> Null]
    /\ stack = <<>>
    /\ log = <<>>
    /\ call = Call("new", Null, Null, Null, "Object", "returned", Null)
    /\ pre = NoPre
    /\ steps = 0

\* ------------------------------------------------ component attachment
addComponent(n, c) ==
    /\ Idle
    /\ IF ~hasComponent(components[n], Constructor(c))
       THEN /\ entity' = [entity EXCEPT ![c] = n]
            /\ components' = [components EXCEPT ![n] = Append(@, c)]
       ELSE UNCHANGED <<entity, components>>
    /\ call' = Call("addComponent", n, Null, c, Constructor(c), "returned", Null)
    /\ log' = <<>>
    /\ pre' = NoPre
    /\ steps' = steps + 1
    /\ UNCHANGED <<children, parent, stack>>

removeComponent(n, type) ==
    /\ Idle
    /\ LET index == FindComponentIndex(components[n], type)
       IN  IF index > -1
           THEN components' = [components EXCEPT ![n] = Splice1(@, index)]
           ELSE UNCHANGED components
    /\ call' = Call("removeComponent", n, Null, Null, type, "returned", Null)
    /\ log' = <<>>
    /\ pre' = NoPre
    /\ steps' = steps + 1
    /\ UNCHANGED <<children, parent, entity, stack>>

\* ------------------------------------------------ hierarchy mutation
\* An addChild without the includes test.
addChildUnchecked(n, child) ==
    /\ stack = <<>> /\ steps < MaxSteps
    /\ parent' = [parent EXCEPT ![child] = n]
    /\ children' = [children EXCEPT ![n] = Append(@, child)]
    /\ call' = [op |-> "addChild", node |-> n, child |-> child, comp |-> Null,
                type |-> "Object", status |-> "returned", result |-> Null]
    /\ log' = <<>>
    /\ pre' = <<>>
    /\ steps' = steps + 1
    /\ UNCHANGED <<components, entity, stack>>

\* The `this._children == null` branch of addChild never runs: the
\* constructor sets _children to [] and no method sets it to null.
addChild(n, child) ==
    /\ Idle
    /\ IF ~Includes(children[n], child)
       THEN /\ parent' = [parent EXCEPT ![child] = n]
            /\ children' = [children EXCEPT ![n] = Append(@, child)]
       ELSE UNCHANGED <<parent, children>>
    /\ call' = Call("addChild", n, child, Null, "Object", "returned", Null)
    /\ log' = <<>>
    /\ pre' = NoPre
    /\ steps' = steps + 1
    /\ UNCHANGED <<components, entity, stack>>

\* The body of removeChild, shared by the top-level call and by Destroy():
\* this._children[index].parent = null throws a TypeError when index is -1
\* (this._children[-1] is undefined), before anything is changed.
removeChildThrows(ch, n, child) == FindIndex(ch[n], child) = -1

\* A removeChild that leaves the child's parent reference alone.
removeChildParentKept(par, ch, n, child) == par

removeChildParent(par, ch, n, child) == [par EXCEPT ![child] = Null]

removeChildChildren(ch, n, child) == [ch EXCEPT ![n] = Splice1(@, FindIndex(@, child))]

removeChild(n, child) ==
    /\ Idle
    /\ IF removeChildThrows(children, n, child)
       THEN /\ UNCHANGED <<parent, children>>
            /\ call' = Call("removeChild", n, child, Null, "Object", "TypeError", Null)
       ELSE /\ parent' = removeChildParent(parent, children, n, child)
            /\ children' = removeChildChildren(children, n, child)
            /\ call' = Call("removeChild", n, child, Null, "Object", "returned", Null)
    /\ log' = <<>>
    /\ pre' = NoPre
    /\ steps' = steps + 1
    /\ UNCHANGED <<components, entity, stack>>

\* ------------------------------------------------ legacy Entity
\* The Entity of src/unnamed/part_000, on the same fields (its constructor
\* leaves parent undefined, which is Null here as well).
\* Its addChild pushes without an includes test.
legacyAddChild(n, child) ==
    /\ Idle
    /\ children' = [children EXCEPT ![n] = Append(@, child)]
    /\ parent' = [parent EXCEPT ![child] = n]
    /\ call' = Call("legacy.addChild", n, child, Null, "Object", "returned", Null)
    /\ log' = <<>>
    /\ pre' = NoPre
    /\ steps' = steps + 1
    /\ UNCHANGED <<components, entity, stack>>

\* Its removeChild splices first and then writes
\* this.children[index].parent = undefined with the index of the removed
\* child: that is now the next sibling, or nothing (a TypeError) when the
\* child was the last one or was not found.
legacyRemoveChild(n, child) ==
    /\ Idle
    /\ LET index == FindIndex(children[n], child)
           spliced == IF index > -1 THEN Splice1(children[n], index) ELSE children[n]
       IN  /\ children' = [children EXCEPT ![n] = spliced]
           /\ IF index > -1 /\ index < Len(spliced)
              THEN /\ parent' = [parent EXCEPT ![spliced[index + 1]] = Null]
                   /\ call' = Call("legacy.removeChild", n, child, Null, "Object",
                                   "returned", Null)
              ELSE /\ UNCHANGED parent
                   /\ call' = Call("legacy.removeChild", n, child, Null, "Object",
                                   "TypeError", Null)
    /\ log' = <<>>
    /\ pre' = NoPre
    /\ steps' = steps + 1
    /\ UNCHANGED <<components, entity, stack>>

\* ------------------------------------------------ queries over children
\* The local variable `component` of getComponentinChildren after the forEach
\* over kids[i..]: every matching child overwrites it.
RECURSIVE ForEachMatch(_, _, _, _, _)
ForEachMatch(cs, kids, type, i, component) ==
    IF i > Len(kids) THEN component
    ELSE IF hasComponent(cs[kids[i]], type)
         THEN ForEachMatch(cs, kids, type, i + 1, getComponent(cs[kids[i]], type))
         ELSE ForEachMatch(cs, kids, type, i + 1, component)

\* entity.js: the callback's `return component` only ends the callback, and
\* the method ends with `return null`.
ComponentinChildren(cs, kids, type) ==
    LET component == ForEachMatch(cs, kids, type, 1, Null)
    IN  Null

getComponentinChildren(n, type) ==
    /\ Idle
    /\ call' = Call("getComponentinChildren", n, Null, Null, type, "returned",
                    ComponentinChildren(components, children[n], type))
    /\ log' = <<>>
    /\ pre' = NoPre
    /\ steps' = steps + 1
    /\ UNCHANGED <<children, parent, components, entity, stack>>

\* getComponentsInChildren: the array `components` after the forEach over
\* kids[i..], every matching child pushing its getComponent(type).
RECURSIVE ForEachPush(_, _, _, _, _)
ForEachPush(cs, kids, type, i, found) ==
    IF i > Len(kids) THEN found
    ELSE IF hasComponent(cs[kids[i]], type)
         THEN ForEachPush(cs, kids, type, i + 1, Append(found, getComponent(cs[kids[i]], type)))
         ELSE ForEachPush(cs, kids, type, i + 1, found)

ComponentsInChildren(cs, kids, type) == ForEachPush(cs, kids, type, 1, <<>>)

getComponentsInChildren(n, type) ==
    /\ Idle
    /\ call' = Call("getComponentsInChildren", n, Null, Null, type, "returned",
                    ComponentsInChildren(components, children[n], type))
    /\ log' = <<>>
    /\ pre' = NoPre
    /\ steps' = steps + 1
    /\ UNCHANGED <<children, parent, components, entity, stack>>

\* ------------------------------------------------ tree dump
\* The _name of entity n: entity n is constructed with the name n.
Name(n) == n

\* getTree() calls itself once per child; a call nested deeper than
\* MaxDepth overflows the stack (a RangeError), as on a cyclic hierarchy.
RECURSIVE TreeOverflows(_, _, _)
TreeOverflows(ch, n, d) ==
    IF d > MaxDepth THEN TRUE
    ELSE \E i \in 1..Len(ch[n]) : TreeOverflows(ch, ch[n][i], d + 1)

\* A dump that does not descend below the children.
TreeOfShallow(ch, n) ==
    [name |-> Name(n),
     children |-> [i \in 1..Len(ch[n]) |-> [name |-> Name(ch[n][i]), children |-> <<>>]]]

RECURSIVE TreeOf(_, _)
TreeOf(ch, n) ==
    [name |-> Name(n), children |-> [i \in 1..Len(ch[n]) |-> TreeOf(ch, ch[n][i])]]

getTree(n) ==
    /\ Idle
    /\ IF TreeOverflows(children, n, 1)
       THEN call' = Call("getTree", n, Null, Null, "Object", "RangeError", Null)
       ELSE call' = Call("getTree", n, Null, Null, "Object", "returned", TreeOf(children, n))
    /\ log' = <<>>
    /\ pre' = NoPre
    /\ steps' = steps + 1
    /\ UNCHANGED <<children, parent, components, entity, stack>>

\* ------------------------------------------------ lifecycle propagation
\* Init() and Destroy() recurse through forEach callbacks; the recursion is
\* run on an explicit call stack. A frame is one running call of Init() or
\* Destroy() on `node`, inside its second forEach: k is the index forEach
\* visits next and len the length of _children it read when it started.
\* A forEach that starts at index 1 instead of 0.
FrameSkipFirst(op, n, ch) == [op |-> op, node |-> n, k |-> 1, len |-> Len(ch[n])]

Frame(op, n, ch) == [op |-> op, node |-> n, k |-> 0, len |-> Len(ch[n])]

Top == stack[Len(stack)]

ReplaceTop(f) == [stack EXCEPT ![Len(stack)] = f]

Pop == SubSeq(stack, 1, Len(stack) - 1)

\* Lifecycle events: <<kind, entity, component, depth of the call>>.
Enter(n, d) == <<"enter", n, Null, d>>

Hook(n, c, d) == <<"hook", n, c, d>>

Detached(n, d) == <<"detach", n, Null, d>>

Exit(n, d) == <<"exit", n, Null, d>>

\* this._components.forEach(component => component.Init() / .Destroy()):
\* the hooks of the attached components, in array order.
\* A forEach that walks the components from the last to the first.
ComponentHooksReversed(cs, n, d) == [i \in 1..Len(cs) |-> Hook(n, cs[Len(cs) + 1 - i], d)]

ComponentHooks(cs, n, d) == [i \in 1..Len(cs) |-> Hook(n, cs[i], d)]

\* What a call of Init()/Destroy() on n does before its second forEach:
\* it is entered and runs the first forEach over its components.
Begin(cs, n, d) == <<Enter(n, d)>> \o ComponentHooks(cs, n, d)

\* A top-level entity.Init() or entity.Destroy(), up to its second forEach.
LifecycleCall(op, n) ==
    /\ Idle
    /\ stack' = <<Frame(op, n, children)>>
    /\ log' = Begin(components[n], n, 1)
    /\ call' = Call(op, n, Null, Null, "Object", "running", Null)
    /\ pre' = [children |-> children, parent |-> parent]
    /\ steps' = steps + 1
    /\ UNCHANGED <<children, parent, components, entity>>

Init(n) == LifecycleCall("Init", n)

Destroy(n) == LifecycleCall("Destroy", n)

\* An Update() that walks the children as Init() does.
UpdateRecursive(n) == LifecycleCall("Update", n)

\* entity.Update(): the one forEach over the components, and nothing else.
Update(n) ==
    /\ Idle
    /\ log' = Begin(components[n], n, 1) \o <<Exit(n, 1)>>
    /\ call' = Call("Update", n, Null, Null, "Object", "returned", Null)
    /\ pre' = NoPre
    /\ steps' = steps + 1
    /\ UNCHANGED <<children, parent, components, entity, stack>>

\* One iteration of this._children.forEach(child => child.Init()/.Destroy()).
\* forEach visits index k only if the array still has it (HasProperty); the
\* callback is a nested call, which overflows the stack at MaxDepth frames.
RunChildren ==
    /\ stack # <<>>
    /\ Top.k < Top.len
    /\ IF Top.k < Len(children[Top.node])
       THEN IF Len(stack) >= MaxDepth
            THEN /\ stack' = <<>>
                 /\ call' = [call EXCEPT !.status = "RangeError"]
                 /\ UNCHANGED log
            ELSE /\ stack' = Append(ReplaceTop([Top EXCEPT !.k = @ + 1]),
                                    Frame(Top.op, children[Top.node][Top.k + 1], children))
                 /\ log' = log \o Begin(components[children[Top.node][Top.k + 1]],
                                        children[Top.node][Top.k + 1], Len(stack) + 1)
                 /\ UNCHANGED call
       ELSE /\ stack' = ReplaceTop([Top EXCEPT !.k = @ + 1])
            /\ UNCHANGED <<log, call>>
    /\ UNCHANGED <<children, parent, components, entity, pre, steps>>

\* Init() returns once its second forEach is over.
ReturnInit ==
    /\ stack # <<>>
    /\ Top.op = "Init"
    /\ Top.k = Top.len
    /\ stack' = Pop
    /\ log' = Append(log, Exit(Top.node, Len(stack)))
    /\ call' = IF Len(stack) = 1 THEN [call EXCEPT !.status = "returned"] ELSE call
    /\ UNCHANGED <<children, parent, components, entity, pre, steps>>

\* The last statement of Destroy(): this._parent.removeChild(this). It throws
\* a TypeError when _parent is null, and when removeChild does not find this.
DestroyDetach ==
    /\ stack # <<>>
    /\ Top.op = "Destroy"
    /\ Top.k = Top.len
    /\ IF parent[Top.node] = Null \/ removeChildThrows(children, parent[Top.node], Top.node)
       THEN /\ stack' = <<>>
            /\ call' = [call EXCEPT !.status = "TypeError"]
            /\ UNCHANGED <<children, parent, log>>
       ELSE /\ parent' = removeChildParent(parent, children, parent[Top.node], Top.node)
            /\ children' = removeChildChildren(children, parent[Top.node], Top.node)
            /\ stack' = Pop
            /\ log' = log \o <<Detached(Top.node, Len(stack)), Exit(Top.node, Len(stack))>>
            /\ call' = IF Len(stack) = 1 THEN [call EXCEPT !.status = "returned"] ELSE call
    /\ UNCHANGED <<components, entity, pre, steps>>

\* ------------------------------------------------ inputs
\* An entity nothing refers to and that refers to nothing is as the
\* constructor left it; all such entities are interchangeable, and so are
\* the never-attached instances of one class. Calls take their arguments
\* among the entities and components in use and the lowest-numbered unused
\* ones, which reaches every state up to a renaming of unused objects.
Mentions(ch, par, n) ==
    \/ ch[n] # <<>>
    \/ par[n] # Null
    \/ \E m \in Nodes : Includes(ch[m], n)

InUse(n) ==
    \/ Mentions(children, parent, n)
    \/ components[n] # <<>>
    \/ \E c \in Comps : entity[c] = n
    \/ call.node = n \/ call.child = n
    \/ \E i \in 1..Len(log) : log[i][2] = n
    \/ pre # NoPre /\ Mentions(pre.children, pre.parent, n)

Unused == IF Idle THEN {n \in Nodes : ~InUse(n)} ELSE {}

LowestOf(S) == {n \in S : \A m \in S : n <= m}

Receivers == IF Idle THEN (Nodes \ Unused) \cup LowestOf(Unused) ELSE {}

Arguments(n) == (Nodes \ Unused) \cup {n} \cup LowestOf(Unused \ {n})

Instances ==
    {c \in (IF Idle THEN Comps ELSE {}) : entity[c] # Null \/ call.comp = c
                   \/ \A d \in 1..(c - 1) : Constructor(d) = Constructor(c)
                                             => (entity[d] # Null \/ call.comp = d)}

\* ------------------------------------------------ specifications
NextTree ==
    \/ \E n \in Receivers : \E child \in Arguments(n) : addChild(n, child)
    \/ \E n \in Receivers : \E child \in Arguments(n) : removeChild(n, child)

SpecTree == InitState /\ [][NextTree]_vars

NextComp ==
    \/ \E n \in Receivers, c \in Instances : addComponent(n, c)
    \/ \E n \in Receivers, type \in Classes : removeComponent(n, type)

SpecComp == InitState /\ [][NextComp]_vars

NextLife ==
    \/ \E n \in Receivers : \E child \in Arguments(n) : addChild(n, child)
    \/ \E n \in Receivers, c \in Instances : addComponent(n, c)
    \/ \E n \in Receivers : Init(n)
    \/ \E n \in Receivers : Destroy(n)
    \/ \E n \in Receivers : Update(n)
    \/ RunChildren
    \/ ReturnInit
    \/ DestroyDetach

SpecLife == InitState /\ [][NextLife]_vars

NextQuery ==
    \/ \E n \in Receivers : \E child \in Arguments(n) : addChild(n, child)
    \/ \E n \in Receivers, c \in Instances : addComponent(n, c)
    \/ \E n \in Receivers, type \in Classes : getComponentinChildren(n, type)
    \/ \E n \in Receivers, type \in Classes : getComponentsInChildren(n, type)
    \/ \E n \in Receivers : getTree(n)

SpecQuery == InitState /\ [][NextQuery]_vars

NextLegacy ==
    \/ \E n \in Receivers : \E child \in Arguments(n) : legacyAddChild(n, child)
    \/ \E n \in Receivers : \E child \in Arguments(n) : legacyRemoveChild(n, child)

SpecLegacy == InitState /\ [][NextLegacy]_vars

\* ------------------------------------------------ properties
\* The positions of cs holding a component that satisfies capability type.
Matching(cs, type) == {i \in 1..Len(cs) : InstanceOf(cs[i], type)}

\* The positions of cs holding a component constructed from exactly cls.
ConstructedFrom(cs, cls) == {i \in 1..Len(cs) : Constructor(cs[i]) = cls}

\* The entities reachable from n by one or more children edges.
RECURSIVE Closure(_, _)
Closure(ch, S) ==
    LET T == S \cup UNION {Range(ch[m]) : m \in S}
    IN  IF T = S THEN S ELSE Closure(ch, T)

Descendants(ch, n) == Closure(ch, Range(ch[n]))

\* C1 (as stated): every entity holds at most one component satisfying any
\* capability, supertypes included.
C1_UniquePerCapability ==
    \A n \in Nodes : \A type \in Classes : Cardinality(Matching(components[n], type)) <= 1

\* C1 (amended): every entity holds at most one component constructed from
\* any one class; a supertype may be satisfied by several components.
C1_UniquePerClass ==
    \A n \in Nodes : \A cls \in Classes : Cardinality(ConstructedFrom(components[n], cls)) <= 1

\* C1 witness: an entity holding two components that satisfy one capability
\* has just rejected another instance of an attached component's class.
C1_Witness ==
    /\ call.op = "addComponent"
    /\ call.node # Null
    /\ ~Includes(components[call.node], call.comp)
    /\ ConstructedFrom(components[call.node], Constructor(call.comp)) # {}
    /\ \E type \in Classes : Cardinality(Matching(components[call.node], type)) >= 2

\* C2: every child of every entity names that entity as its parent.
C2_ParentChildSymmetry ==
    \A n \in Nodes : \A i \in 1..Len(children[n]) : parent[children[n][i]] = n

\* C4: removeChild of an absent child returns normally and changes neither
\* any children sequence nor any parent reference.
C4_AbsentRemoveIsNoOp ==
    [][(/\ steps' = steps + 1
        /\ call'.op = "removeChild"
        /\ ~Includes(children[call'.node], call'.child))
       => (/\ call'.status = "returned"
           /\ children' = children
           /\ parent' = parent)]_vars

\* C5: no entity occurs in the children of two different entities.
C5_SingleParent ==
    \A m \in Nodes : \A n \in Nodes :
        m # n => Range(children[m]) \cap Range(children[n]) = {}

\* C6: no entity is reachable from itself along children edges.
C6_Acyclic == \A n \in Nodes : n \notin Descendants(children, n)

\* The children of n, by position, that hold a component satisfying type.
MatchingChildren(n, type) ==
    {i \in 1..Len(children[n]) : hasComponent(components[children[n][i]], type)}

Last(S) == CHOOSE i \in S : \A j \in S : j <= i

\* C7: getComponentinChildren(type) returns the matching component of the
\* last child that has one, and none only when no child has one.
C7_LastMatch ==
    call.op = "getComponentinChildren" =>
        call.result =
            IF MatchingChildren(call.node, call.type) = {} THEN Null
            ELSE getComponent(
                     components[children[call.node][Last(MatchingChildren(call.node, call.type))]],
                     call.type)

\* The hierarchy is a forest: symmetric parent links, one parent, no cycle.
WellFormed(ch, par) ==
    /\ \A n \in Nodes : \A i \in 1..Len(ch[n]) : par[ch[n][i]] = n
    /\ \A m \in Nodes : \A n \in Nodes : m # n => Range(ch[m]) \cap Range(ch[n]) = {}
    /\ \A n \in Nodes : n \notin Descendants(ch, n)

Entered(n) == \E i \in 1..Len(log) : log[i][1] = "enter" /\ log[i][2] = n

Hooked(n, c) == \E i \in 1..Len(log) : log[i][1] = "hook" /\ log[i][2] = n /\ log[i][3] = c

\* C3: a Destroy() of an entity that has a parent, on a well-formed tree,
\* runs Destroy() on every descendant and the hook of each of its components.
C3_DestroyReachesSubtree ==
    (/\ call.op = "Destroy"
     /\ call.status = "returned"
     /\ pre.parent[call.node] # Null
     /\ WellFormed(pre.children, pre.parent))
    => \A x \in Descendants(pre.children, call.node) :
           /\ Entered(x)
           /\ \A i \in 1..Len(components[x]) : Hooked(x, components[x][i])

\* C8: Destroy() of an entity without a parent ends without an error.
C8_RootDestroyCompletes ==
    (/\ call.op = "Destroy"
     /\ stack = <<>>
     /\ pre.parent[call.node] = Null)
    => call.status = "returned"

\* Every call logged is followed at once by the hooks of the entity's
\* components, in attachment order, and by no other hook of that call.
HooksFirst ==
    \A i \in 1..Len(log) :
        log[i][1] = "enter" =>
            LET cs == components[log[i][2]]
            IN  /\ Len(log) >= i + Len(cs)
                /\ \A j \in 1..Len(cs) : log[i + j] = Hook(log[i][2], cs[j], log[i][4])
                /\ \A j \in (i + Len(cs) + 1)..Len(log) :
                       (log[j][1] = "hook" /\ log[j][4] = log[i][4] /\ log[j][2] = log[i][2])
                       => \E m \in (i + 1)..j : log[m][1] = "enter" /\ log[m][4] = log[i][4]

\* The position of the call of depth d that is running at position j.
CallStart(j, d) ==
    CHOOSE i \in 1..j :
        /\ log[i][1] = "enter" /\ log[i][4] = d
        /\ \A m \in (i + 1)..j : ~(log[m][1] = "enter" /\ log[m][4] = d)

HasCallStart(j, d) == \E i \in 1..j : log[i][1] = "enter" /\ log[i][4] = d

CountKind(kind, d, from, to) ==
    Cardinality({m \in from..to : log[m][1] = kind /\ log[m][4] = d})

\* Every detach logged belongs to a call of Destroy() on that entity whose
\* component hooks have all run and whose nested calls have all returned.
DetachLast ==
    \A j \in 1..Len(log) :
        log[j][1] = "detach" =>
            /\ HasCallStart(j, log[j][4])
            /\ LET i == CallStart(j, log[j][4])
                   cs == components[log[j][2]]
               IN  /\ log[i][2] = log[j][2]
                   /\ j > i + Len(cs)
                   /\ CountKind("enter", log[j][4] + 1, i, j)
                        = CountKind("exit", log[j][4] + 1, i, j)
                   /\ \A m \in (i + 1)..(j - 1) : log[m][1] # "detach" \/ log[m][4] > log[j][4]

\* On a well-formed tree, an entity whose Destroy() is still running is
\* where it was when the top-level Destroy() was called.
AttachedWhileRunning ==
    WellFormed(pre.children, pre.parent) =>
    \A f \in 1..Len(stack) :
        LET n == stack[f].node
        IN  /\ parent[n] = pre.parent[n]
            /\ parent[n] # Null => Includes(children[parent[n]], n)

\* C9: in a Destroy(), each entity's component hooks run in attachment order
\* before any child's Destroy() starts, and the entity is detached from its
\* parent only after its hooks and its children's Destroy() calls are over.
C9_DestroyOrder ==
    call.op = "Destroy" => (HooksFirst /\ DetachLast /\ AttachedWhileRunning)

\* C9 witness: a Destroy() ran two component hooks of an entity and then
\* destroyed and detached a child of it.
C9_Witness ==
    /\ call.op = "Destroy"
    /\ Len(components[call.node]) >= 2
    /\ \E j \in 1..Len(log) : log[j][1] = "detach" /\ log[j][4] = 2

\* The entities whose calls of depth d + 1 started between positions i and j.
NestedCalls(i, j, d) ==
    LET IsNested(e) == e[1] = "enter" /\ e[4] = d + 1
        es == SelectSeq(SubSeq(log, i, j), IsNested)
    IN  [m \in 1..Len(es) |-> es[m][2]]

\* Every call of Init() that returned has called Init() on exactly the
\* entity's children, in children order.
ChildrenInOrder ==
    \A j \in 1..Len(log) :
        log[j][1] = "exit" =>
            /\ HasCallStart(j, log[j][4])
            /\ log[CallStart(j, log[j][4])][2] = log[j][2]
            /\ NestedCalls(CallStart(j, log[j][4]), j, log[j][4]) = children[log[j][2]]

\* C10: Init() runs an entity's component hooks in attachment order before
\* anything of its descendants, then Init() of each child in children order.
C10_InitOrder == call.op = "Init" => (HooksFirst /\ ChildrenInOrder)

\* C10 witness: an Init() that returned ran an entity's component hook and
\* then a hook of a component of its child.
C10_Witness ==
    /\ call.op = "Init"
    /\ call.status = "returned"
    /\ components[call.node] # <<>>
    /\ \E j \in 1..Len(log) : log[j][1] = "hook" /\ log[j][4] = 2

\* The number of positions of s that hold x.
Occurrences(s, x) == Cardinality({i \in 1..Len(s) : s[i] = x})

\* C11: removeChild of a present child returns with the child out of the
\* entity's children and the child's parent no longer that entity.
C11_RemovePresentChild ==
    [][(/\ steps' = steps + 1
        /\ call'.op = "removeChild"
        /\ Occurrences(children[call'.node], call'.child) > 0)
       => (/\ call'.status = "returned"
           /\ parent'[call'.child] # call'.node
           /\ Occurrences(children'[call'.node], call'.child) = 0)]_vars

\* C11 witness: a removeChild has removed a child and left a sibling.
C11_Witness ==
    /\ call.op = "removeChild"
    /\ call.status = "returned"
    /\ children[call.node] # <<>>

\* C12: a component is in the components of at most one entity, and its
\* entity back-reference is the entity holding it.
C12_ComponentOwnership ==
    \A n \in Nodes : \A i \in 1..Len(components[n]) :
        /\ entity[components[n][i]] = n
        /\ \A m \in Nodes : m # n => Occurrences(components[m], components[n][i]) = 0

\* C13: addChild of a child the entity already holds leaves the children
\* sequence as it was, with that child once in it, and every parent
\* reference, the child's included, unchanged.
C13_IdempotentReAdd ==
    [][(/\ steps' = steps + 1
        /\ call'.op = "addChild"
        /\ Occurrences(children[call'.node], call'.child) > 0)
       => (/\ call'.status = "returned"
           /\ children' = children
           /\ Occurrences(children'[call'.node], call'.child) = 1
           /\ parent' = parent
           /\ (parent[call'.child] = call'.node => parent'[call'.child] = call'.node))]_vars

\* C13 witness: the child of the last addChild is in the entity's children
\* before their last position, where an append would not have put it, and
\* names the entity as its parent.
C13_Witness ==
    /\ call.op = "addChild"
    /\ Len(children[call.node]) >= 2
    /\ children[call.node][1] = call.child
    /\ parent[call.child] = call.node

\* C14: an addComponent of a component whose class an attached component
\* satisfies, and a removeComponent of a capability no attached component
\* satisfies, return normally and change no components sequence and no
\* entity back-reference.
C14_ComponentErrorsAreNoOps ==
    [][(/\ steps' = steps + 1
        /\ \/ /\ call'.op = "addComponent"
              /\ Matching(components[call'.node], Constructor(call'.comp)) # {}
           \/ /\ call'.op = "removeComponent"
              /\ Matching(components[call'.node], call'.type) = {})
       => (/\ call'.status = "returned"
           /\ components' = components
           /\ entity' = entity)]_vars

\* C14 witness: the last addComponent was rejected: its component has no
\* entity and the entity holds a component of a subclass of its class.
C14_Witness ==
    /\ call.op = "addComponent"
    /\ entity[call.comp] = Null
    /\ \E i \in 1..Len(components[call.node]) :
           /\ InstanceOf(components[call.node][i], Constructor(call.comp))
           /\ Constructor(components[call.node][i]) # Constructor(call.comp)

\* C19 (as stated): right after removeComponent(type) the entity has no
\* component satisfying type.
C19_RemoveThenQuery ==
    call.op = "removeComponent" => ~hasComponent(components[call.node], call.type)

\* C19 (amended): removeComponent(type) on an entity holding at most one
\* component that satisfies type leaves it with none.
C19_RemoveSoleMatch ==
    [][(/\ steps' = steps + 1
        /\ call'.op = "removeComponent"
        /\ Cardinality(Matching(components[call'.node], call'.type)) <= 1)
       => ~hasComponent(components'[call'.node], call'.type)]_vars

\* C19 witness: a removeComponent(type) has removed a component of a proper
\* subclass of type, and nothing satisfying type is left.
C19_Witness ==
    /\ call.op = "removeComponent"
    /\ Matching(components[call.node], call.type) = {}
    /\ \E c \in Comps : /\ entity[c] = call.node
                        /\ InstanceOf(c, call.type)
                        /\ Constructor(c) # call.type
                        /\ Occurrences(components[call.node], c) = 0

\* The positions of the log at which component c was hooked.
HookedAt(c) == {j \in 1..Len(log) : log[j][1] = "hook" /\ log[j][3] = c}

\* C15: Update() runs the hook of each of the entity's components once, in
\* attachment order, and nothing of any other entity.
C15_UpdateDoesNotRecurse ==
    call.op = "Update" =>
        LET cs == components[call.node]
        IN  /\ Len(log) = Len(cs) + 2
            /\ \A i \in 1..Len(cs) : log[i + 1][1] = "hook" /\ log[i + 1][3] = cs[i]
            /\ \A c \in Comps :
                   Cardinality(HookedAt(c)) = IF Occurrences(cs, c) > 0 THEN 1 ELSE 0
            /\ \A j \in 1..Len(log) : log[j][2] = call.node /\ log[j][4] = 1

\* C15 witness: Update() ran on an entity with a component whose child has
\* a component too.
C15_Witness ==
    /\ call.op = "Update"
    /\ components[call.node] # <<>>
    /\ \E i \in 1..Len(children[call.node]) : components[children[call.node][i]] # <<>>

\* C17: after a Destroy() of an entity that had a parent has returned, the
\* entity is in no entity's children.
C17_DestroyedUnreachable ==
    (/\ call.op = "Destroy"
     /\ call.status = "returned"
     /\ pre.parent[call.node] # Null)
    => \A m \in Nodes : Occurrences(children[m], call.node) = 0

\* The positions of the children of n that hold a component satisfying type.
ChildrenSatisfying(n, type) ==
    {i \in 1..Len(children[n]) : Matching(components[children[n][i]], type) # {}}

\* The r-th smallest element of a set of positions.
Nth(S, r) == CHOOSE p \in S : Cardinality({q \in S : q < p}) = r - 1

\* The first component of cs, in attachment order, that satisfies type.
FirstMatch(cs, type) ==
    cs[CHOOSE i \in Matching(cs, type) : \A j \in Matching(cs, type) : i <= j]

RECURSIVE IsDump(_, _, _)
IsDump(t, ch, n) ==
    /\ DOMAIN t = {"name", "children"}
    /\ t.name = Name(n)
    /\ Len(t.children) = Len(ch[n])
    /\ \A i \in 1..Len(ch[n]) : IsDump(t.children[i], ch, ch[n][i])

\* C18: getTree() changes nothing, returns on every acyclic hierarchy, and
\* what it returns is the name/children dump of the entity.
C18_TreeDump ==
    [][(steps' = steps + 1 /\ call'.op = "getTree")
       => (/\ UNCHANGED <<children, parent, components, entity>>
           /\ C6_Acyclic => call'.status = "returned"
           /\ call'.status = "returned" => IsDump(call'.result, children, call'.node))]_vars

\* C18 witness: a dump of an entity with two children, the first of which
\* has a child and the second none.
C18_Witness ==
    /\ call.op = "getTree"
    /\ call.status = "returned"
    /\ Len(call.result.children) = 2
    /\ Len(call.result.children[1].children) = 1
    /\ Len(call.result.children[2].children) = 0

\* C20: the legacy removeChild of a present child returns normally, removes
\* that child from the entity's children and nothing else, and leaves the
\* parent reference of every other child of the entity unchanged.
C20_LegacyRemoveFrame ==
    [][(/\ steps' = steps + 1
        /\ call'.op = "legacy.removeChild"
        /\ Occurrences(children[call'.node], call'.child) > 0)
       => (/\ call'.status = "returned"
           /\ children' = [children EXCEPT ![call'.node] =
                              Splice1(@, FindIndex(@, call'.child))]
           /\ \A x \in Range(children[call'.node]) \ {call'.child} :
                  parent'[x] = parent[x])]_vars

====
